---- MODULE Spec2Model ----
(***************************************************************************)
(* Intersection and acceleration core of the ray tracer: aabb, sphere,     *)
(* moving_sphere, constant_medium, hittable_list and bvh_node.             *)
(*                                                                         *)
(* Numbers.  Coordinates, radii, times and densities are small integers,   *)
(* on which every double operation of the code is exact.  A ray parameter  *)
(* t is an integer counting units of 1/TScale, so that a quotient by       *)
(* a = |D|^2 in {1, 2, 4} is exact and the 0.0001 step of constant_medium  *)
(* is one unit.  Points and normals of a hit record are stored in the same *)
(* 1/TScale units.  IEEE infinities are the values Infinity and            *)
(* -Infinity, NaN is the value NaN, and the comparisons FLt, FGt, FLe are  *)
(* false as soon as an operand is NaN.                                     *)
(***************************************************************************)
EXTENDS Integers, Sequences, FiniteSets, TLC

VARIABLES
    world,      \* hittable_list::objects of the caller's scene list
    tree,       \* the bvh_node built over world, or NoTree
    gen,        \* position of the process-wide generator of random_double
    q,          \* the last call issued (hit or bounding_box), or NoCall
    out,        \* what that call returned
    out2,       \* what the same hit call returned when issued again
    pc,         \* per render thread: "idle" or "drawing" (inside random_double)
    loc,        \* per render thread: the generator position it read
    tq          \* per render thread: the ray it is tracing

vars == <<world, tree, gen, q, out, out2, pc, loc, tq>>

-----------------------------------------------------------------------------
(* Scalars *)

\* F(v) for v the value of x: a local variable, assigned once and read by F
Local(x, F(_)) == CHOOSE y \in {F(v) : v \in {x}} : TRUE

\* 1 / TScale is the 0.0001 that constant_medium adds to the entry parameter
TScale == 10000

\* std::numeric_limits<double>::infinity()
Infinity == 1000000000

NaN == 2 * Infinity

IsNaN(x) == x = NaN

IsFinite(x) == x # NaN /\ x < Infinity /\ x > -Infinity

FLt(x, y) == ~IsNaN(x) /\ ~IsNaN(y) /\ x < y

FGt(x, y) == FLt(y, x)

FLe(x, y) == ~IsNaN(x) /\ ~IsNaN(y) /\ x <= y

Abs(x) == IF x < 0 THEN -x ELSE x

\* x / y for the operands the model feeds it: y divides x
ExactDiv(x, y) == IF y > 0 THEN x \div y ELSE -(x \div (-y))

Divides(y, x) == y # 0 /\ x % Abs(y) = 0

\* sqrt on the perfect squares; the floor elsewhere (never used there)
ISqrt(x) == CHOOSE s \in 0..x : s * s <= x /\ (s + 1) * (s + 1) > x

IsSquare(x) == x >= 0 /\ ISqrt(x) * ISqrt(x) = x

-----------------------------------------------------------------------------
(* vec3 *)

Axes == 0..2

Vec(x, y, z) == <<x, y, z>>

\* vec3::operator[]
E(v, a) == v[a + 1]

VAdd(u, v) == <<u[1] + v[1], u[2] + v[2], u[3] + v[3]>>

VSub(u, v) == <<u[1] - v[1], u[2] - v[2], u[3] - v[3]>>

VScale(k, v) == <<k * v[1], k * v[2], k * v[3]>>

VNeg(v) == <<-v[1], -v[2], -v[3]>>

VDivExact(v, k) == <<ExactDiv(v[1], k), ExactDiv(v[2], k), ExactDiv(v[3], k)>>

Dot(u, v) == u[1] * v[1] + u[2] * v[2] + u[3] * v[3]

LengthSquared(v) == Dot(v, v)

Length(v) == ISqrt(LengthSquared(v))

Min2(x, y) == IF x < y THEN x ELSE y

Max2(x, y) == IF x > y THEN x ELSE y

-----------------------------------------------------------------------------
(* ray *)

\* nz: the axes on which a zero direction component is the double -0.0
Ray(o, d, tm) == [orig |-> o, dir |-> d, tm |-> tm, nz |-> {}]

\* ray::at, in 1/TScale units (t is in 1/TScale units)
At(r, t) == VAdd(VScale(TScale, r.orig), VScale(t, r.dir))

-----------------------------------------------------------------------------
(* aabb *)

Aabb(a, b) == [minimum |-> a, maximum |-> b]

\* aabb(): both points are vec3(), that is (0, 0, 0)
DefaultAabb == Aabb(Vec(0, 0, 0), Vec(0, 0, 0))

\* a mutant of InvDNegative: t0 and t1 are never swapped
InvDNeverNegative(r, a) == FALSE

\* 1.0f / r.direction()[a]: the sign decides the swap; a zero gives an infinity
InvDNegative(r, a) == E(r.dir, a) < 0 \/ (E(r.dir, a) = 0 /\ a \in r.nz)

\* (x - r.origin()[a]) * invD, x a box coordinate
SlabT(x, r, a) ==
    LET d == E(r.dir, a)
        num == x - E(r.orig, a)
    IN  IF d # 0 THEN ExactDiv(num * TScale, d)
        ELSE IF num = 0 THEN NaN
        ELSE IF (num > 0) = ~InvDNegative(r, a) THEN Infinity
        ELSE -Infinity

\* one pass of the loop body of aabb::hit: the narrowed interval
SlabStep(box, r, a, iv) ==
    LET x0 == SlabT(E(box.minimum, a), r, a)
        x1 == SlabT(E(box.maximum, a), r, a)
        t0 == IF InvDNegative(r, a) THEN x1 ELSE x0
        t1 == IF InvDNegative(r, a) THEN x0 ELSE x1
    IN  [lo |-> IF FGt(t0, iv.lo) THEN t0 ELSE iv.lo,
         hi |-> IF FLt(t1, iv.hi) THEN t1 ELSE iv.hi]

RECURSIVE AabbHitFrom(_, _, _, _)
AabbHitFrom(box, r, a, iv) ==
    IF a = 3 THEN TRUE
    ELSE Local(SlabStep(box, r, a, iv),
               LAMBDA nx : IF FLe(nx.hi, nx.lo) THEN FALSE
                           ELSE AabbHitFrom(box, r, a + 1, nx))

\* aabb::hit
AabbHit(box, r, t_min, t_max) ==
    AabbHitFrom(box, r, 0, [lo |-> t_min, hi |-> t_max])

\* a mutant of surrounding_box: big is taken from box0 alone
surrounding_box_big_of_box0(box0, box1) ==
    Aabb(Vec(Min2(box0.minimum[1], box1.minimum[1]),
             Min2(box0.minimum[2], box1.minimum[2]),
             Min2(box0.minimum[3], box1.minimum[3])),
         box0.maximum)

\* surrounding_box
surrounding_box(box0, box1) ==
    Aabb(Vec(Min2(box0.minimum[1], box1.minimum[1]),
             Min2(box0.minimum[2], box1.minimum[2]),
             Min2(box0.minimum[3], box1.minimum[3])),
         Vec(Max2(box0.maximum[1], box1.maximum[1]),
             Max2(box0.maximum[2], box1.maximum[2]),
             Max2(box0.maximum[3], box1.maximum[3])))

-----------------------------------------------------------------------------
(* The scene objects the model draws from.  An object is named by its id,  *)
(* as the code names it by a shared_ptr; Prim gives its fields.            *)

\* sphere(cen, r, m)
Sphere(cen, r, m) ==
    [kind |-> "sphere", center0 |-> cen, center1 |-> cen, time0 |-> 0, time1 |-> 0,
     radius |-> r, mat |-> m, boundary |-> 0, density |-> 0, objects |-> <<>>]

\* moving_sphere(cen0, cen1, _time0, _time1, r, m)
MovingSphere(cen0, cen1, t0, t1, r, m) ==
    [kind |-> "moving_sphere", center0 |-> cen0, center1 |-> cen1, time0 |-> t0,
     time1 |-> t1, radius |-> r, mat |-> m, boundary |-> 0, density |-> 0,
     objects |-> <<>>]

\* constant_medium(b, d, c); m names make_shared<isotropic>(c)
ConstantMedium(b, d, m) ==
    [kind |-> "constant_medium", center0 |-> Vec(0, 0, 0), center1 |-> Vec(0, 0, 0),
     time0 |-> 0, time1 |-> 0, radius |-> 0, mat |-> m, boundary |-> b,
     density |-> d, objects |-> <<>>]

\* a hittable_list used as a scene object
NestedList(objs) ==
    [kind |-> "hittable_list", center0 |-> Vec(0, 0, 0), center1 |-> Vec(0, 0, 0),
     time0 |-> 0, time1 |-> 0, radius |-> 0, mat |-> 0, boundary |-> 0,
     density |-> 0, objects |-> objs]

\* Two unit spheres on the x axis, a unit sphere that moves up the y axis
\* during [0, 2] and touches the first sphere at time 0, a medium of density
\* 1 bounded by a unit sphere of its own, an empty list, and the boundary
\* sphere of the medium.
Prim(id) ==
    CASE id = 1 -> Sphere(Vec(0, 0, 0), 1, 1)
      [] id = 2 -> Sphere(Vec(2, 0, 0), 1, 2)
      [] id = 3 -> MovingSphere(Vec(0, 2, 0), Vec(0, 4, 0), 0, 2, 1, 3)
      [] id = 4 -> ConstantMedium(6, 1, 4)
      [] id = 5 -> NestedList(<<>>)
      [] id = 6 -> Sphere(Vec(-2, 0, 0), 1, 6)
      [] id = 7 -> MovingSphere(Vec(0, 0, 0), Vec(0, 2, 0), 0, 2, 1, 7)

\* the objects a scene list is assembled from: the spheres and the empty list
SceneIds == {1, 2, 3, 5}

\* the objects a scene list with a medium is assembled from
MediumSceneIds == {1, 3, 4}

\* static and moving spheres
IsSphereId(id) == Prim(id).kind \in {"sphere", "moving_sphere"}

Obj(id) == [kind |-> "obj", id |-> id]

-----------------------------------------------------------------------------
(* hit_record *)

\* u and v of the record (acos, atan2 of the normal) are not modelled
NoRec ==
    [t |-> 0, p |-> Vec(0, 0, 0), normal |-> Vec(0, 0, 0), front_face |-> FALSE,
     mat |-> 0]

\* hit_record::set_face_normal; the outward normal is in 1/TScale units
SetFaceNormal(rec, r, outward_normal) ==
    LET ff == Dot(r.dir, outward_normal) < 0
    IN  [rec EXCEPT !.front_face = ff,
                    !.normal = IF ff THEN outward_normal ELSE VNeg(outward_normal)]

Miss(rec, us) == [hit |-> FALSE, rec |-> rec, us |-> us]

-----------------------------------------------------------------------------
(* sphere and moving_sphere *)

\* a mutant of MovingCenter: center0 is not added
MovingCenterNoBase(s, time) ==
    VDivExact(VScale(time - s.time0, VSub(s.center1, s.center0)),
              s.time1 - s.time0)

\* moving_sphere::center
MovingCenter(s, time) ==
    VAdd(s.center0,
         VDivExact(VScale(time - s.time0, VSub(s.center1, s.center0)),
                   s.time1 - s.time0))

\* a mutant of OutOfRange: a root equal to t_max is refused
OutOfRangeStrict(root, t_min, t_max) == FLt(root, t_min) \/ FLe(t_max, root)

\* root < t_min || t_max < root
OutOfRange(root, t_min, t_max) == FLt(root, t_min) \/ FLt(t_max, root)

\* a mutant of RootLowFirst: the larger root is never tried
RootLowOnly(lo, hi, t_min, t_max) == lo

\* the root tried: the smaller one, and the larger one when that is out of range
RootLowFirst(lo, hi, t_min, t_max) ==
    IF OutOfRange(lo, t_min, t_max) THEN hi ELSE lo

\* sphere::hit and moving_sphere::hit against the center cen
SphereHitAt(s, cen, r, t_min, t_max, rec, us) ==
    LET oc == VSub(r.orig, cen)
        a == LengthSquared(r.dir)
        half_b == Dot(oc, r.dir)
        c == LengthSquared(oc) - s.radius * s.radius
        discriminant == half_b * half_b - a * c
    IN  IF discriminant < 0 THEN Miss(rec, us)
        ELSE LET sqrtd == ISqrt(discriminant)
                 lo == ExactDiv((-half_b - sqrtd) * TScale, a)
                 hi == ExactDiv((-half_b + sqrtd) * TScale, a)
                 root == RootLowFirst(lo, hi, t_min, t_max)
             IN  IF OutOfRange(root, t_min, t_max) THEN Miss(rec, us)
                 ELSE LET p == At(r, root)
                          outward_normal ==
                              VDivExact(VSub(p, VScale(TScale, cen)), s.radius)
                          r1 == [rec EXCEPT !.t = root, !.p = p]
                          r2 == SetFaceNormal(r1, r, outward_normal)
                      IN  [hit |-> TRUE, rec |-> [r2 EXCEPT !.mat = s.mat],
                           us |-> us]

\* sphere::bounding_box
SphereBox(s) ==
    Aabb(VSub(s.center0, Vec(s.radius, s.radius, s.radius)),
         VAdd(s.center0, Vec(s.radius, s.radius, s.radius)))

\* moving_sphere::bounding_box
MovingSphereBox(s, t0, t1) ==
    LET rv == Vec(s.radius, s.radius, s.radius)
        box0 == Aabb(VSub(MovingCenter(s, t0), rv), VAdd(MovingCenter(s, t0), rv))
        box1 == Aabb(VSub(MovingCenter(s, t1), rv), VAdd(MovingCenter(s, t1), rv))
    IN  surrounding_box(box0, box1)

-----------------------------------------------------------------------------
(* random_double *)

\* The values random_double returns in the model: U = 0, 1/2 and 3/4,
\* named by 4 * U.
Draws == {0, 2, 3}

\* -log(U) in 1/TScale units, rounded to a multiple of 4: -log(3/4) = 0.2877,
\* -log(1/2) = 0.6931, and -log(0) is infinity
NegLog(u) ==
    CASE u = 0 -> Infinity
      [] u = 2 -> 6932
      [] u = 3 -> 2876

\* random_int(0, 2): static_cast<int>(0 + 3 * U)
RandomAxis(u) == (3 * u) \div 4

-----------------------------------------------------------------------------
(* hit.  Hit(h, r, t_min, t_max, rec, us) is the call h->hit(r, t_min,     *)
(* t_max, rec) when random_double returns the values of the sequence us in *)
(* turn: hit is the returned bool, rec the caller's record after the call  *)
(* and us the values not yet drawn.                                        *)

RECURSIVE Hit(_, _, _, _, _, _)

\* the loop of hittable_list::hit from the i-th object on; st holds
\* hit_anything, closest_so_far, temp_rec, rec and the values left to draw
\* a mutant of ListAccept: closest_so_far is left at t_max
ListAcceptNoShrink(st, h) ==
    [hit_anything |-> TRUE, closest_so_far |-> st.closest_so_far,
     temp_rec |-> h.rec, rec |-> h.rec, us |-> h.us]

\* the body of the if in the loop of hittable_list::hit: the object was hit
ListAccept(st, h) ==
    [hit_anything |-> TRUE, closest_so_far |-> h.rec.t,
     temp_rec |-> h.rec, rec |-> h.rec, us |-> h.us]

RECURSIVE ListHitFrom(_, _, _, _, _)
ListHitFrom(objs, i, r, t_min, st) ==
    IF i > Len(objs) THEN st
    ELSE Local(Hit(Obj(objs[i]), r, t_min, st.closest_so_far, st.temp_rec, st.us),
               LAMBDA h :
                   Local(IF h.hit THEN ListAccept(st, h)
                         ELSE [st EXCEPT !.temp_rec = h.rec, !.us = h.us],
                         LAMBDA nx : ListHitFrom(objs, i + 1, r, t_min, nx)))

\* a mutant of ListHit: rec = temp_rec is done after the loop, hit or not
ListHitCopiesTemp(objs, r, t_min, t_max, rec, us) ==
    Local(ListHitFrom(objs, 1, r, t_min,
                      [hit_anything |-> FALSE, closest_so_far |-> t_max,
                       temp_rec |-> NoRec, rec |-> rec, us |-> us]),
          LAMBDA st : [hit |-> st.hit_anything, rec |-> st.temp_rec, us |-> st.us])

\* hittable_list::hit
ListHit(objs, r, t_min, t_max, rec, us) ==
    Local(ListHitFrom(objs, 1, r, t_min,
                      [hit_anything |-> FALSE, closest_so_far |-> t_max,
                       temp_rec |-> NoRec, rec |-> rec, us |-> us]),
          LAMBDA st : [hit |-> st.hit_anything, rec |-> st.rec, us |-> st.us])

\* constant_medium::hit, from the draw of the free path on
MediumSample(m, r, t1, t2, rec, us) ==
    LET ray_length == Length(r.dir)
        distance_inside_boundary == (t2 - t1) * ray_length
        hit_distance ==
            IF NegLog(Head(us)) = Infinity THEN Infinity
            ELSE ExactDiv(NegLog(Head(us)), m.density)
    IN  IF hit_distance > distance_inside_boundary THEN Miss(rec, Tail(us))
        ELSE LET t == t1 + ExactDiv(hit_distance, ray_length)
             IN  [hit |-> TRUE,
                  rec |-> [rec EXCEPT !.t = t, !.p = At(r, t),
                                      !.normal = VScale(TScale, Vec(1, 0, 0)),
                                      !.front_face = TRUE, !.mat = m.mat],
                  us |-> Tail(us)]

\* a mutant of ClipLow: the entry parameter is not clipped
ClipLowNone(t, t_min) == t

\* if (rec1.t < t_min) rec1.t = t_min
ClipLow(t, t_min) == IF t < t_min THEN t_min ELSE t

\* if (rec2.t > t_max) rec2.t = t_max
ClipHigh(t, t_max) == IF t > t_max THEN t_max ELSE t

\* constant_medium::hit
MediumHit(m, r, t_min, t_max, rec, us) ==
    Local(Hit(Obj(m.boundary), r, -Infinity, Infinity, NoRec, us), LAMBDA h1 :
        IF ~h1.hit THEN Miss(rec, h1.us)
        ELSE Local(Hit(Obj(m.boundary), r, h1.rec.t + 1, Infinity, NoRec, h1.us),
                   LAMBDA h2 :
                 IF ~h2.hit THEN Miss(rec, h2.us)
                 ELSE LET c1 == ClipLow(h1.rec.t, t_min)
                          c2 == ClipHigh(h2.rec.t, t_max)
                      IN  IF c1 >= c2 THEN Miss(rec, h2.us)
                          ELSE MediumSample(m, r, IF c1 < 0 THEN 0 ELSE c1, c2,
                                            rec, h2.us)))

\* a mutant of BvhHit: the right child is asked first, then the left one
\* up to the t of the right one
BvhHitRightFirst(n, r, t_min, t_max, rec, us) ==
    IF ~AabbHit(n.box, r, t_min, t_max) THEN Miss(rec, us)
    ELSE Local(Hit(n.right, r, t_min, t_max, rec, us), LAMBDA hr :
             Local(Hit(n.left, r, t_min,
                       IF hr.hit THEN hr.rec.t ELSE t_max, hr.rec, hr.us),
                   LAMBDA hl :
                       [hit |-> hl.hit \/ hr.hit, rec |-> hl.rec, us |-> hl.us]))

\* bvh_node::hit
BvhHit(n, r, t_min, t_max, rec, us) ==
    IF ~AabbHit(n.box, r, t_min, t_max) THEN Miss(rec, us)
    ELSE Local(Hit(n.left, r, t_min, t_max, rec, us), LAMBDA hl :
             Local(Hit(n.right, r, t_min,
                       IF hl.hit THEN hl.rec.t ELSE t_max, hl.rec, hl.us),
                   LAMBDA hr :
                       [hit |-> hl.hit \/ hr.hit, rec |-> hr.rec, us |-> hr.us]))

\* the virtual call h->hit
Hit(h, r, t_min, t_max, rec, us) ==
    IF h.kind = "bvh" THEN BvhHit(h, r, t_min, t_max, rec, us)
    ELSE LET s == Prim(h.id)
         IN  CASE s.kind = "sphere" ->
                      SphereHitAt(s, s.center0, r, t_min, t_max, rec, us)
               [] s.kind = "moving_sphere" ->
                      SphereHitAt(s, MovingCenter(s, r.tm), r, t_min, t_max, rec, us)
               [] s.kind = "constant_medium" ->
                      MediumHit(s, r, t_min, t_max, rec, us)
               [] s.kind = "hittable_list" ->
                      ListHit(s.objects, r, t_min, t_max, rec, us)

-----------------------------------------------------------------------------
(* bounding_box.  BoundingBox(h, time0, time1, output_box) is the call     *)
(* h->bounding_box(time0, time1, output_box): ok is the returned bool and  *)
(* box the caller's output_box after the call.                             *)

RECURSIVE BoundingBox(_, _, _, _)

\* a mutant of MemberBoxMissing: the object without a box is skipped
MemberBoxSkipped(output_box) ==
    [ok |-> TRUE, box |-> output_box]

\* if (!object->bounding_box(time0, time1, temp_box)) return false
MemberBoxMissing(output_box) ==
    [ok |-> FALSE, box |-> output_box]

\* the loop of hittable_list::bounding_box from the i-th object on
RECURSIVE ListBoxFrom(_, _, _, _, _, _, _)
ListBoxFrom(objs, i, time0, time1, temp_box, output_box, first_box) ==
    IF i > Len(objs) THEN [ok |-> TRUE, box |-> output_box]
    ELSE Local(BoundingBox(Obj(objs[i]), time0, time1, temp_box), LAMBDA b :
             IF ~b.ok THEN MemberBoxMissing(output_box)
             ELSE Local(IF first_box THEN b.box
                        ELSE surrounding_box(output_box, b.box),
                        LAMBDA nx : ListBoxFrom(objs, i + 1, time0, time1, b.box,
                                                nx, FALSE)))

\* hittable_list::bounding_box
ListBox(objs, time0, time1, output_box) ==
    IF Len(objs) = 0 THEN [ok |-> FALSE, box |-> output_box]
    ELSE ListBoxFrom(objs, 1, time0, time1, DefaultAabb, output_box, TRUE)

\* the virtual call h->bounding_box
BoundingBox(h, time0, time1, output_box) ==
    IF h.kind = "bvh" THEN [ok |-> TRUE, box |-> h.box]
    ELSE LET s == Prim(h.id)
         IN  CASE s.kind = "sphere" -> [ok |-> TRUE, box |-> SphereBox(s)]
               [] s.kind = "moving_sphere" ->
                      [ok |-> TRUE, box |-> MovingSphereBox(s, time0, time1)]
               [] s.kind = "constant_medium" ->
                      BoundingBox(Obj(s.boundary), time0, time1, output_box)
               [] s.kind = "hittable_list" ->
                      ListBox(s.objects, time0, time1, output_box)

-----------------------------------------------------------------------------
(* Construction of the bvh_node tree *)

\* a mutant of box_compare: the boxes are compared with > in place of <
box_compare_greater(a, b, axis) ==
    Local(BoundingBox(Obj(a), 0, 0, DefaultAabb), LAMBDA ba :
        Local(IF ba.ok THEN BoundingBox(Obj(b), 0, 0, DefaultAabb)
              ELSE [ok |-> FALSE, box |-> DefaultAabb],
              LAMBDA bb : E(ba.box.minimum, axis) > E(bb.box.minimum, axis)))

\* box_compare: the second bounding_box call is skipped when the first fails
box_compare(a, b, axis) ==
    Local(BoundingBox(Obj(a), 0, 0, DefaultAabb), LAMBDA ba :
        Local(IF ba.ok THEN BoundingBox(Obj(b), 0, 0, DefaultAabb)
              ELSE [ok |-> FALSE, box |-> DefaultAabb],
              LAMBDA bb : E(ba.box.minimum, axis) < E(bb.box.minimum, axis)))

\* The position in seq of the element std::sort may put first: a least one
\* under box_compare; among equivalent ones the earliest when tie = 0 and the
\* latest when tie = 1 (std::sort leaves their order unspecified).
RECURSIVE LeastIndex(_, _, _, _, _)
LeastIndex(seq, i, best, axis, tie) ==
    IF i > Len(seq) THEN best
    ELSE Local(IF box_compare(seq[i], seq[best], axis)
                  \/ (tie = 1 /\ ~box_compare(seq[best], seq[i], axis))
               THEN i ELSE best,
               LAMBDA nx : LeastIndex(seq, i + 1, nx, axis, tie))

RemoveAt(seq, i) == SubSeq(seq, 1, i - 1) \o SubSeq(seq, i + 1, Len(seq))

RECURSIVE SortedSeq(_, _, _)
SortedSeq(seq, axis, tie) ==
    IF Len(seq) <= 1 THEN seq
    ELSE Local(LeastIndex(seq, 2, 1, axis, tie), LAMBDA i :
             Local(RemoveAt(seq, i),
                   LAMBDA rest : <<seq[i]>> \o SortedSeq(rest, axis, tie)))

\* std::sort(objects.begin() + start, objects.begin() + end, comparator)
SortRange(objects, start, end, axis, tie) ==
    SubSeq(objects, 1, start)
        \o SortedSeq(SubSeq(objects, start + 1, end), axis, tie)
        \o SubSeq(objects, end + 1, Len(objects))

\* a mutant of SrcAfterBuild: objects is a reference to the caller's vector
SrcAfterBuildAliased(src_objects, objects) == objects

\* The caller's vector after the constructor has worked on objects: objects
\* is a copy (auto objects = src_objects), so the vector is what it was.
SrcAfterBuild(src_objects, objects) == src_objects

\* a mutant of NodeBox: box is the box of the left child
NodeBoxOfLeft(left, right, time0, time1) ==
    BoundingBox(left, time0, time1, DefaultAabb).box

\* bvh_node::box from the children
NodeBox(left, right, time0, time1) ==
    Local(BoundingBox(left, time0, time1, DefaultAabb), LAMBDA bl :
        Local(IF bl.ok THEN BoundingBox(right, time0, time1, DefaultAabb)
              ELSE [ok |-> FALSE, box |-> DefaultAabb],
              LAMBDA br : surrounding_box(bl.box, br.box)))

BvhNode(left, right, time0, time1) ==
    [kind |-> "bvh", left |-> left, right |-> right,
     box |-> NodeBox(left, right, time0, time1)]

\* bvh_node::bvh_node(src_objects, start, end, time0, time1), for end > start.
\* axes are the values random_int(0, 2) returns, in the order of the calls.
\* node is the node built, axes the values not yet drawn and src the
\* caller's vector after the call.
RECURSIVE Build(_, _, _, _, _, _, _)
Build(src_objects, start, end, time0, time1, axes, tie) ==
    LET axis == Head(axes)
        object_span == end - start
    IN  IF object_span = 1
        THEN [node |-> BvhNode(Obj(src_objects[start + 1]), Obj(src_objects[start + 1]),
                               time0, time1),
              axes |-> Tail(axes),
              src |-> SrcAfterBuild(src_objects, src_objects)]
        ELSE IF object_span = 2
        THEN LET a == src_objects[start + 1]
                 b == src_objects[start + 2]
                 less == box_compare(a, b, axis)
             IN  [node |-> BvhNode(Obj(IF less THEN a ELSE b),
                                   Obj(IF less THEN b ELSE a), time0, time1),
                  axes |-> Tail(axes),
                  src |-> SrcAfterBuild(src_objects, src_objects)]
        ELSE LET mid == start + object_span \div 2
             IN  Local(SortRange(src_objects, start, end, axis, tie), LAMBDA sorted :
                 Local(Build(sorted, start, mid, time0, time1, Tail(axes), tie),
                       LAMBDA l :
                 Local(Build(l.src, mid, end, time0, time1, l.axes, tie),
                       LAMBDA r :
                     [node |-> BvhNode(l.node, r.node, time0, time1),
                      axes |-> r.axes,
                      src |-> SrcAfterBuild(src_objects, r.src)])))

\* the number of bvh_node objects built over a range of n objects
RECURSIVE NodeCount(_)
NodeCount(n) ==
    IF n <= 2 THEN 1 ELSE 1 + NodeCount(n \div 2) + NodeCount(n - n \div 2)

-----------------------------------------------------------------------------
(* Inputs of the calls *)

\* largest number of objects in the scene list
MaxObjects == 3

\* the generator position wraps at GenPeriod
GenPeriod == 2

\* number of render threads
NumThreads == 2

T(k) == k * TScale

\* Rays along the axes.  RayX crosses the medium boundary (t 2..4), sphere 1
\* (4..6) and sphere 2 (6..8); RayTangent touches sphere 1 and the moving
\* sphere at t = 5; RayFast has direction length 2 and crosses sphere 1 at
\* t 1.5..2.5; RayInside starts at the center of the medium boundary and
\* crosses sphere 1 (1..3) and sphere 2 (3..5); RayY crosses sphere 1 (4..6)
\* and the moving sphere (6 + time .. 8 + time); RayAway misses everything.
RayX == Ray(Vec(-5, 0, 0), Vec(1, 0, 0), 0)

RayTangent == Ray(Vec(0, 1, -5), Vec(0, 0, 1), 0)

RayFast == Ray(Vec(0, 0, -4), Vec(0, 0, 2), 0)

RayInside == Ray(Vec(-2, 0, 0), Vec(1, 0, 0), 0)

RayY(tm) == Ray(Vec(0, -5, 0), Vec(0, 1, 0), tm)

RayAway == Ray(Vec(5, 5, -5), Vec(0, 0, 1), 0)

Rays == {RayX, RayTangent, RayFast, RayInside, RayAway, RayY(0), RayY(1), RayY(2)}

\* [t_min, t_max] of a hit call; 10 is the 0.001 the integrator passes
Intervals ==
    {<<10, Infinity>>, <<-T(1), Infinity>>, <<0, T(4)>>, <<T(5), T(5)>>,
     <<T(6), T(10)>>, <<T(3), T(5)>>, <<T(5), T(4)>>}

\* [time0, time1] of a construction: the shutter interval of the moving sphere
BuildWindows == {<<0, 2>>}

\* [time0, time1] of a bounding_box call
Windows == {<<0, 2>>, <<0, 0>>}

NoTree == [kind |-> "none"]

NoCall == [op |-> "none"]

NoOut == [op |-> "none"]

\* sequences of n values of S
SeqsOf(S, n) == [1..n -> S]

IsMediumId(id) == Prim(id).kind = "constant_medium"

RECURSIVE MediumCalls(_)
\* how many constant_medium::hit calls one hit call on h can make
MediumCalls(h) ==
    IF h.kind = "bvh" THEN MediumCalls(h.left) + MediumCalls(h.right)
    ELSE IF IsMediumId(h.id) THEN 1 ELSE 0

ListMediumCalls(objs) == Cardinality({i \in 1..Len(objs) : IsMediumId(objs[i])})

\* the values n calls of random_double can return
DrawSeqs(n) == SeqsOf(Draws, n)

-----------------------------------------------------------------------------
(* The program: the scene list is assembled, a tree is built over it, and  *)
(* hit and bounding_box calls are issued.                                  *)

Advance(g, n) == (g + n) % GenPeriod

Init ==
    /\ world = <<>>
    /\ tree = NoTree
    /\ gen = 0
    /\ q = NoCall
    /\ out = NoOut
    /\ out2 = NoOut
    /\ pc = [t \in 1..NumThreads |-> "idle"]
    /\ loc = [t \in 1..NumThreads |-> 0]
    /\ tq = [t \in 1..NumThreads |-> RayAway]

\* hittable_list::add, of an object not yet in the list
Add(id) ==
    /\ q = NoCall
    /\ tree = NoTree
    /\ Len(world) < MaxObjects
    /\ \A i \in 1..Len(world) : world[i] # id
    /\ world' = Append(world, id)
    /\ q' = NoCall /\ out' = NoOut /\ out2' = NoOut
    /\ UNCHANGED <<tree, gen, pc, loc, tq>>

\* hittable_list::clear
Clear ==
    /\ q = NoCall
    /\ tree = NoTree
    /\ world # <<>>
    /\ world' = <<>>
    /\ q' = NoCall /\ out' = NoOut /\ out2' = NoOut
    /\ UNCHANGED <<tree, gen, pc, loc, tq>>

\* bvh_node(world, time0, time1)
BuildBvh(w, axes, tie) ==
    /\ q = NoCall
    /\ tree = NoTree
    /\ Len(world) >= 1
    /\ \E b \in {Build(world, 0, Len(world), w[1], w[2], axes, tie)} :
           /\ tree' = [kind |-> "built", root |-> b.node, time0 |-> w[1],
                       time1 |-> w[2], src |-> world]
           /\ world' = b.src
    /\ gen' = Advance(gen, Len(axes))
    /\ q' = NoCall /\ out' = NoOut /\ out2' = NoOut
    /\ UNCHANGED <<pc, loc, tq>>

HitOut(h) == [op |-> "hit", hit |-> h.hit, rec |-> h.rec]

\* a mutant of TreeAfterHit: the traversal swaps the children of the root
TreeAfterHitSwapped(t) ==
    [t EXCEPT !.root = [t.root EXCEPT !.left = t.root.right, !.right = t.root.left]]

\* The tree after a hit call on it: bvh_node::hit is const and writes to no
\* node, so the tree is what it was.
TreeAfterHit(t) == t

\* world.hit(r, t_min, t_max, rec) on a fresh record
HitList(r, iv, us) ==
    /\ q = NoCall
    /\ \E h \in {ListHit(world, r, iv[1], iv[2], NoRec, us)} :
           /\ out' = HitOut(h)
           /\ gen' = Advance(gen, Len(us) - Len(h.us))
    /\ q' = [op |-> "hit", on |-> "list", r |-> r, t_min |-> iv[1], t_max |-> iv[2]]
    /\ out2' = NoOut
    /\ UNCHANGED <<world, tree, pc, loc, tq>>

\* tree.hit(r, t_min, t_max, rec) on a fresh record
HitTree(r, iv, us) ==
    /\ q = NoCall
    /\ tree # NoTree
    /\ \E h \in {Hit(tree.root, r, iv[1], iv[2], NoRec, us)} :
           /\ out' = HitOut(h)
           /\ gen' = Advance(gen, Len(us) - Len(h.us))
    /\ q' = [op |-> "hit", on |-> "tree", r |-> r, t_min |-> iv[1], t_max |-> iv[2]]
    /\ out2' = NoOut
    /\ tree' = TreeAfterHit(tree)
    /\ UNCHANGED <<world, pc, loc, tq>>

\* the call of q issued a second time
HitAgain(us) ==
    /\ q # NoCall
    /\ q.op = "hit"
    /\ out2 = NoOut
    /\ \E h \in {IF q.on = "list"
                  THEN ListHit(world, q.r, q.t_min, q.t_max, NoRec, us)
                  ELSE Hit(tree.root, q.r, q.t_min, q.t_max, NoRec, us)} :
           /\ out2' = HitOut(h)
           /\ gen' = Advance(gen, Len(us) - Len(h.us))
    /\ tree' = IF q.on = "tree" THEN TreeAfterHit(tree) ELSE tree
    /\ UNCHANGED <<world, q, out, pc, loc, tq>>

\* the caller is done with the results of its call
Return ==
    /\ q # NoCall
    /\ q' = NoCall /\ out' = NoOut /\ out2' = NoOut
    /\ UNCHANGED <<world, tree, gen, pc, loc, tq>>

\* world.bounding_box(time0, time1, output_box) on a fresh aabb
BoxList(w) ==
    /\ q = NoCall
    /\ q' = [op |-> "box", on |-> "list", time0 |-> w[1], time1 |-> w[2]]
    /\ out' = [op |-> "box"] @@ ListBox(world, w[1], w[2], DefaultAabb)
    /\ out2' = NoOut
    /\ UNCHANGED <<world, tree, gen, pc, loc, tq>>

Calls ==
    \/ Clear
    \/ \E w \in BuildWindows, tie \in 0..1 :
          \E axes \in SeqsOf(Axes, NodeCount(Len(world))) : BuildBvh(w, axes, tie)
    \/ \E r \in Rays, iv \in Intervals :
          \E us \in DrawSeqs(ListMediumCalls(world)) : HitList(r, iv, us)
    \/ \E r \in Rays, iv \in Intervals :
          \E us \in DrawSeqs(IF tree = NoTree THEN 0 ELSE MediumCalls(tree.root)) :
              HitTree(r, iv, us)
    \/ \E w \in Windows : BoxList(w)
    \/ Return

\* scenes of spheres and lists
Next ==
    \/ \E id \in SceneIds : Add(id)
    \/ Calls

Spec == Init /\ [][Next]_vars

\* scenes with a constant_medium, and calls issued twice
NextMedium ==
    \/ \E id \in MediumSceneIds : Add(id)
    \/ Calls
    \/ \E us \in DrawSeqs(IF q = NoCall \/ q.op # "hit" THEN 0
                          ELSE IF q.on = "list" THEN ListMediumCalls(world)
                          ELSE MediumCalls(tree.root)) : HitAgain(us)

SpecMedium == Init /\ [][NextMedium]_vars

\* every division and square root of the model is exact on its inputs
ExactSphere(s, cen, r) ==
    LET oc == VSub(r.orig, cen)
        a == LengthSquared(r.dir)
        half_b == Dot(oc, r.dir)
        disc == half_b * half_b - a * (LengthSquared(oc) - s.radius * s.radius)
    IN  /\ a > 0
        /\ IsSquare(a)
        /\ disc >= 0 => /\ IsSquare(disc)
                        /\ Divides(a, (-half_b - ISqrt(disc)) * TScale)
                        /\ Divides(a, (-half_b + ISqrt(disc)) * TScale)

ExactInputs ==
    \A r \in Rays :
        /\ \A id \in {1, 2, 6} : ExactSphere(Prim(id), Prim(id).center0, r)
        /\ ExactSphere(Prim(3), MovingCenter(Prim(3), r.tm), r)

-----------------------------------------------------------------------------
(* Properties of hittable_list::hit and bvh_node::hit *)

IsHitCall(on) == q # NoCall /\ q.op = "hit" /\ q.on = on

\* what the object id answers alone to the call of q
Alone(id) == Hit(Obj(id), q.r, q.t_min, q.t_max, NoRec, <<>>)

\* the positions of the objects of objs that accept a hit within the interval of q
Accepting(objs) == {i \in 1..Len(objs) : Alone(objs[i]).hit}

\* the least t the objects of objs accept
NearestT(objs) ==
    CHOOSE t \in {Alone(objs[i]).rec.t : i \in Accepting(objs)} :
        \A j \in Accepting(objs) : t <= Alone(objs[j]).rec.t

\* the positions of the objects of objs that accept the least t
Nearest(objs) == {i \in Accepting(objs) : Alone(objs[i]).rec.t = NearestT(objs)}

Orders(n) == {f \in [1..n -> 1..n] : \A i, j \in 1..n : f[i] = f[j] => i = j}

Permuted(objs, f) == [i \in 1..Len(objs) |-> objs[f[i]]]

\* C1: on a tree built over static and moving spheres, for a ray whose time
\* lies in the construction window and an interval with t_min <= t_max,
\* bvh_node::hit returns what hittable_list::hit returns on the list the tree
\* was built from: the same outcome and, on a hit, the same t.
C1_TreeAgreesWithList ==
    (/\ IsHitCall("tree")
     /\ \A i \in 1..Len(tree.src) : IsSphereId(tree.src[i])
     /\ tree.time0 <= q.r.tm /\ q.r.tm <= tree.time1
     /\ q.t_min <= q.t_max)
    => LET l == ListHit(tree.src, q.r, q.t_min, q.t_max, NoRec, <<>>)
       IN  /\ out.hit = l.hit
           /\ out.hit => out.rec.t = l.rec.t

\* C2: hittable_list::hit returns true iff some object of the list accepts a
\* hit within [t_min, t_max], and the t of the record is then the least t
\* the objects accept.
C2_ListHitIsNearest ==
    IsHitCall("list")
    => /\ out.hit = (Accepting(world) # {})
       /\ out.hit => out.rec.t = NearestT(world)

\* C2 witness: a list call hit where an object later in the list is nearer
\* than one before it.
C2_Witness ==
    /\ IsHitCall("list")
    /\ out.hit
    /\ \E i, j \in Accepting(world) :
          i < j /\ Alone(world[j]).rec.t < Alone(world[i]).rec.t

C4_HitWithinInterval ==
    (q # NoCall /\ q.op = "hit")
    => /\ out.hit => (q.t_min <= out.rec.t /\ out.rec.t <= q.t_max)
       /\ (out2 # NoOut /\ out2.hit) =>
              (q.t_min <= out2.rec.t /\ out2.rec.t <= q.t_max)

\* C4 witness: a call with t_min inside the medium returned a hit of the
\* medium, through a tree.
C4_Witness ==
    /\ IsHitCall("tree")
    /\ out.hit
    /\ out.rec.mat = Prim(4).mat
    /\ q.t_min = T(3)

-----------------------------------------------------------------------------
(* Properties of bounding_box and of the construction *)

\* the box of the object id alone
BoxAlone(id, time0, time1) == BoundingBox(Obj(id), time0, time1, DefaultAabb)

\* the least of the minimums and the greatest of the maximums on each axis
UnionOfBoxes(boxes) ==
    Aabb([k \in 1..3 |->
              CHOOSE x \in {b.minimum[k] : b \in boxes} :
                  \A b \in boxes : x <= b.minimum[k]],
         [k \in 1..3 |->
              CHOOSE x \in {b.maximum[k] : b \in boxes} :
                  \A b \in boxes : x >= b.maximum[k]])

\* C5: hittable_list::bounding_box fails exactly when the list is empty or an
\* object of it has no box; otherwise it succeeds with the union of the
\* boxes of all the objects.
C5_ListBoxAllOrNothing ==
    (q # NoCall /\ q.op = "box")
    => /\ out.ok = (/\ world # <<>>
                    /\ \A i \in 1..Len(world) : BoxAlone(world[i], q.time0, q.time1).ok)
       /\ out.ok =>
              out.box = UnionOfBoxes({BoxAlone(world[i], q.time0, q.time1).box :
                                          i \in 1..Len(world)})

\* C5 witness: bounding_box failed on a list whose first object has a box
\* and whose last object has none.
C5_Witness ==
    /\ q # NoCall /\ q.op = "box"
    /\ ~out.ok
    /\ Len(world) >= 2
    /\ BoxAlone(world[1], q.time0, q.time1).ok
    /\ ~BoxAlone(world[Len(world)], q.time0, q.time1).ok

RECURSIVE NodesOf(_)
\* the bvh_node objects of a tree
NodesOf(h) ==
    IF h.kind = "bvh" THEN {h} \cup NodesOf(h.left) \cup NodesOf(h.right) ELSE {}

\* C6 as claimed: no construction completes with a node one of whose
\* children reports no box.
C6_NoNodeOverMissingBox ==
    tree # NoTree
    => \A n \in NodesOf(tree.root) :
           /\ BoundingBox(n.left, tree.time0, tree.time1, DefaultAabb).ok
           /\ BoundingBox(n.right, tree.time0, tree.time1, DefaultAabb).ok

\* C7: the construction of a tree leaves the caller's list as it was.
C7_BuildKeepsList == [][(tree = NoTree /\ tree' # NoTree) => world' = world]_vars

\* C7 witness: a tree was built over a list of three objects that the sort
\* of its root had to reorder.
C7_Witness ==
    /\ tree # NoTree
    /\ Len(world) >= 3
    /\ \E axis \in Axes : SortRange(world, 0, Len(world), axis, 0) # world
    /\ tree.src = world

-----------------------------------------------------------------------------
(* Repeated calls *)

\* whether a hit call on the target of q can reach a constant_medium
MediumInTarget ==
    IF q.on = "list" THEN ListMediumCalls(world) > 0 ELSE MediumCalls(tree.root) > 0

-----------------------------------------------------------------------------
(* Render threads tracing rays through one tree.  The tree is built over   *)
(* the medium and sphere 1 before any thread starts.  A hit call reads the *)
(* tree; where it reaches random_double it reads the generator and writes  *)
(* it back advanced, in two steps that other threads can interleave with.  *)

Threads == 1..NumThreads

ConcScene == <<4, 1>>

InitConc ==
    /\ world = ConcScene
    /\ tree = [kind |-> "built",
               root |-> Build(ConcScene, 0, Len(ConcScene), 0, 2, <<0>>, 0).node,
               time0 |-> 0, time1 |-> 2, src |-> ConcScene]
    /\ gen = 0
    /\ q = NoCall
    /\ out = [t \in Threads |-> NoOut]
    /\ out2 = NoOut
    /\ pc = [t \in Threads |-> "idle"]
    /\ loc = [t \in Threads |-> 0]
    /\ tq = [t \in Threads |-> RayAway]

\* the hit call of a render thread: tree.hit(r, 0.001, infinity, rec)
ThreadHit(r, us) == Hit(tree.root, r, 10, Infinity, NoRec, us)

\* whether the call reaches random_double (it does so at most once here)
ReachesDraw(r) == Len(ThreadHit(r, <<0>>).us) = 0

\* a thread traces a ray that never reaches random_double
Trace(t, r) ==
    /\ pc[t] = "idle"
    /\ ~ReachesDraw(r)
    /\ tq' = [tq EXCEPT ![t] = r]
    /\ out' = [out EXCEPT ![t] = HitOut(ThreadHit(r, <<>>))]
    /\ UNCHANGED <<world, tree, gen, q, out2, pc, loc>>

\* a thread traces a ray up to random_double and reads the generator
EnterDraw(t, r) ==
    /\ pc[t] = "idle"
    /\ ReachesDraw(r)
    /\ tq' = [tq EXCEPT ![t] = r]
    /\ loc' = [loc EXCEPT ![t] = gen]
    /\ pc' = [pc EXCEPT ![t] = "drawing"]
    /\ UNCHANGED <<world, tree, gen, q, out, out2>>

\* random_double writes the generator back and returns u; the call ends
LeaveDraw(t, u) ==
    /\ pc[t] = "drawing"
    /\ gen' = Advance(loc[t], 1)
    /\ out' = [out EXCEPT ![t] = HitOut(ThreadHit(tq[t], <<u>>))]
    /\ pc' = [pc EXCEPT ![t] = "idle"]
    /\ UNCHANGED <<world, tree, q, out2, loc, tq>>

NextConc ==
    \/ \E t \in Threads, r \in Rays : Trace(t, r)
    \/ \E t \in Threads, r \in Rays : EnterDraw(t, r)
    \/ \E t \in Threads, u \in Draws : LeaveDraw(t, u)

SpecConc == InitConc /\ [][NextConc]_vars

\* C8 as claimed: hit calls issued by the threads write no state they share:
\* not the tree, not the scene, not the process-wide generator.
C8_CallsWriteNothingShared ==
    [][tree' = tree /\ world' = world /\ gen' = gen]_vars

-----------------------------------------------------------------------------
(* aabb::hit as a function of the box, the ray and the interval *)

AabbBoxes ==
    {Aabb(Vec(-1, -1, -1), Vec(1, 1, 1)), Aabb(Vec(0, -1, -1), Vec(2, 1, 0))}

AabbOrigins ==
    {Vec(0, 0, -5), Vec(0, 0, 0), Vec(1, 0, -5), Vec(2, 0, -5), Vec(-3, 0, 5)}

DirValues == {-2, -1, 0, 1, 2}

\* a ray whose zero direction components are all +0.0, or all -0.0
AabbRays ==
    {[orig |-> o, dir |-> Vec(x, y, z), tm |-> 0, nz |-> nz] :
        o \in AabbOrigins, x \in {-1, 0, 1}, y \in {0, 2}, z \in DirValues,
        nz \in {{}, Axes}}

AabbIntervals ==
    {<<0, T(10)>>, <<0, Infinity>>, <<T(4), T(6)>>, <<T(5), T(5)>>,
     <<-Infinity, Infinity>>}

\* box.hit(r, t_min, t_max)
AabbCall(box, r, iv) ==
    /\ q = NoCall
    /\ q' = [op |-> "aabb", box |-> box, r |-> r, t_min |-> iv[1], t_max |-> iv[2]]
    /\ out' = [op |-> "aabb", hit |-> AabbHit(box, r, iv[1], iv[2])]
    /\ UNCHANGED <<world, tree, gen, out2, pc, loc, tq>>

NextAabb ==
    \/ \E box \in AabbBoxes, r \in AabbRays, iv \in AabbIntervals : AabbCall(box, r, iv)
    \/ Return

SpecAabb == Init /\ [][NextAabb]_vars

\* The parameters at which the ray enters and leaves the slab of axis a.  A
\* ray parallel to the slab is inside it for every t or for none.
SlabInside(box, r, a) ==
    E(box.minimum, a) <= E(r.orig, a) /\ E(r.orig, a) <= E(box.maximum, a)

SlabStrictlyInside(box, r, a) ==
    E(box.minimum, a) < E(r.orig, a) /\ E(r.orig, a) < E(box.maximum, a)

SlabStrictlyOutside(box, r, a) ==
    E(r.orig, a) < E(box.minimum, a) \/ E(box.maximum, a) < E(r.orig, a)

SlabEntry(box, r, a) ==
    LET d == E(r.dir, a)
    IN  IF d > 0 THEN ((E(box.minimum, a) - E(r.orig, a)) * TScale) \div d
        ELSE IF d < 0 THEN ((E(r.orig, a) - E(box.maximum, a)) * TScale) \div (-d)
        ELSE IF SlabInside(box, r, a) THEN -Infinity ELSE Infinity

SlabExit(box, r, a) ==
    LET d == E(r.dir, a)
    IN  IF d > 0 THEN ((E(box.maximum, a) - E(r.orig, a)) * TScale) \div d
        ELSE IF d < 0 THEN ((E(r.orig, a) - E(box.minimum, a)) * TScale) \div (-d)
        ELSE IF SlabInside(box, r, a) THEN Infinity ELSE -Infinity

MaxOf(S) == CHOOSE x \in S : \A y \in S : y <= x

MinOf(S) == CHOOSE x \in S : \A y \in S : x <= y

\* [t_min, t_max] cut down to the slabs of the axes of A still has t_max > t_min
SlabsOverlap(box, r, t_min, t_max, A) ==
    MinOf({t_max} \cup {SlabExit(box, r, a) : a \in A})
        > MaxOf({t_min} \cup {SlabEntry(box, r, a) : a \in A})

\* C10: aabb::hit returns true iff [t_min, t_max] cut down to the three slabs
\* still has t_max > t_min; an axis whose direction component is zero, of
\* either sign, forces false when the origin is strictly outside its slab
\* and changes nothing when the origin is strictly inside it.
C10_AabbHitIsSlabOverlap ==
    (q # NoCall /\ q.op = "aabb")
    => /\ out.hit = SlabsOverlap(q.box, q.r, q.t_min, q.t_max, Axes)
       /\ \A a \in Axes :
              E(q.r.dir, a) = 0 =>
                  /\ SlabStrictlyOutside(q.box, q.r, a) => ~out.hit
                  /\ SlabStrictlyInside(q.box, q.r, a) =>
                         out.hit = SlabsOverlap(q.box, q.r, q.t_min, q.t_max,
                                                Axes \ {a})

\* C10 witness: a ray with a direction component -0.0 whose origin is
\* strictly inside that slab, and with a negative component, hits the box.
C10_Witness ==
    /\ q # NoCall /\ q.op = "aabb"
    /\ out.hit
    /\ \E a \in Axes :
          E(q.r.dir, a) = 0 /\ a \in q.r.nz /\ SlabStrictlyInside(q.box, q.r, a)
    /\ \E a \in Axes : E(q.r.dir, a) < 0

-----------------------------------------------------------------------------
(* surrounding_box on its own: boxes that overlap, are nested, are apart,  *)
(* and the box of aabb()                                                    *)

SurroundBoxes ==
    {DefaultAabb,
     Aabb(Vec(-1, -1, -1), Vec(1, 1, 1)),
     Aabb(Vec(1, -1, -1), Vec(3, 1, 1)),
     Aabb(Vec(-2, -2, -2), Vec(2, 2, 2)),
     Aabb(Vec(-1, 1, -1), Vec(1, 5, 1)),
     Aabb(Vec(4, 4, 4), Vec(5, 6, 7)),
     Aabb(Vec(-3, 0, 2), Vec(0, 1, 3))}

\* surrounding_box(a, b) and the calls the algebra of C11 compares it with
SurroundCall(a, b, c) ==
    /\ q = NoCall
    /\ q' = [op |-> "surround", a |-> a, b |-> b, c |-> c]
    /\ out' = [op |-> "surround",
               ab |-> surrounding_box(a, b),
               ba |-> surrounding_box(b, a),
               aa |-> surrounding_box(a, a),
               ab_c |-> surrounding_box(surrounding_box(a, b), c),
               a_bc |-> surrounding_box(a, surrounding_box(b, c))]
    /\ UNCHANGED <<world, tree, gen, out2, pc, loc, tq>>

NextSurround ==
    \/ \E a \in SurroundBoxes, b \in SurroundBoxes, c \in SurroundBoxes :
          SurroundCall(a, b, c)
    \/ Return

SpecSurround == Init /\ [][NextSurround]_vars

\* box a lies within box b
BoxWithin(a, b) ==
    \A k \in 1..3 : b.minimum[k] <= a.minimum[k] /\ a.maximum[k] <= b.maximum[k]

\* C11: surrounding_box(A, B) has on each axis the lesser of the minimums
\* and the greater of the maximums, so it contains A and B; it is
\* commutative, idempotent and associative.
C11_SurroundingBoxAlgebra ==
    (q # NoCall /\ q.op = "surround")
    => /\ \A k \in 1..3 :
              /\ out.ab.minimum[k] \in {q.a.minimum[k], q.b.minimum[k]}
              /\ out.ab.minimum[k] <= q.a.minimum[k]
              /\ out.ab.minimum[k] <= q.b.minimum[k]
              /\ out.ab.maximum[k] \in {q.a.maximum[k], q.b.maximum[k]}
              /\ out.ab.maximum[k] >= q.a.maximum[k]
              /\ out.ab.maximum[k] >= q.b.maximum[k]
       /\ BoxWithin(q.a, out.ab) /\ BoxWithin(q.b, out.ab)
       /\ out.ab = out.ba
       /\ out.aa = q.a
       /\ out.ab_c = out.a_bc

\* C11 witness: the result of surrounding_box(a, b) is neither a nor b, and
\* c is not within it.
C11_Witness ==
    /\ q # NoCall /\ q.op = "surround"
    /\ out.ab # q.a /\ out.ab # q.b
    /\ ~BoxWithin(q.c, out.ab)
    /\ out.ab_c # out.ab

-----------------------------------------------------------------------------
(* The construction on its own, the values random_int returned kept with   *)
(* the call                                                                 *)

\* bvh_node(world, time0, time1); q keeps the axes drawn, in the order of
\* the constructor calls, and the order std::sort gave equivalent elements
BuildTraced(w, axes, tie) ==
    /\ q = NoCall
    /\ tree = NoTree
    /\ Len(world) >= 1
    /\ \E b \in {Build(world, 0, Len(world), w[1], w[2], axes, tie)} :
           /\ tree' = [kind |-> "built", root |-> b.node, time0 |-> w[1],
                       time1 |-> w[2], src |-> world]
           /\ world' = b.src
    /\ gen' = Advance(gen, Len(axes))
    /\ q' = [op |-> "build", axes |-> axes, tie |-> tie]
    /\ out' = NoOut /\ out2' = NoOut
    /\ UNCHANGED <<pc, loc, tq>>

\* tree.bounding_box(time0, time1, output_box) on a fresh aabb
BoxTree(w) ==
    /\ q = NoCall
    /\ tree # NoTree
    /\ q' = [op |-> "box", on |-> "tree", time0 |-> w[1], time1 |-> w[2]]
    /\ out' = [op |-> "box"] @@ BoundingBox(tree.root, w[1], w[2], DefaultAabb)
    /\ out2' = NoOut
    /\ UNCHANGED <<world, tree, gen, pc, loc, tq>>

NextBuild ==
    \/ \E id \in SceneIds : Add(id)
    \/ Clear
    \/ \E w \in Windows : BoxTree(w)
    \/ \E w \in BuildWindows, tie \in 0..1 :
          \E axes \in SeqsOf(Axes, NodeCount(Len(world))) : BuildTraced(w, axes, tie)
    \/ Return

SpecBuild == Init /\ [][NextBuild]_vars

\* the minimum on an axis of the box box_compare asks the object for
KeyOn(id, axis) == E(BoxAlone(id, 0, 0).box.minimum, axis)

RECURSIVE LeavesOf(_)
\* the objects at the leaves of a tree
LeavesOf(h) ==
    IF h.kind = "bvh" THEN LeavesOf(h.left) \cup LeavesOf(h.right) ELSE {h.id}

RECURSIVE CountNodes(_)
\* the number of bvh_node objects of a tree, shared ones counted each time
CountNodes(h) ==
    IF h.kind = "bvh" THEN 1 + CountNodes(h.left) + CountNodes(h.right) ELSE 0

\* The shape of the node n built over a range holding the objects ids, when
\* the constructor calls draw the axes axs in turn.  The order by box minimum
\* is asked of objects that have a box.
RECURSIVE ShapeOk(_, _, _)
ShapeOk(n, ids, axs) ==
    LET axis == Head(axs)
        span == Cardinality(ids)
        ordered(l, r) == (IsSphereId(l) /\ IsSphereId(r))
                             => KeyOn(l, axis) <= KeyOn(r, axis)
    IN  /\ n.kind = "bvh"
        /\ CASE span = 1 ->
                   /\ n.left = n.right
                   /\ n.left.kind = "obj" /\ n.left.id \in ids
              [] span = 2 ->
                   /\ n.left.kind = "obj" /\ n.right.kind = "obj"
                   /\ {n.left.id, n.right.id} = ids
                   /\ ordered(n.left.id, n.right.id)
              [] OTHER ->
                   /\ n.left.kind = "bvh" /\ n.right.kind = "bvh"
                   /\ Cardinality(LeavesOf(n.left)) = span \div 2
                   /\ LeavesOf(n.left) \cup LeavesOf(n.right) = ids
                   /\ LeavesOf(n.left) \cap LeavesOf(n.right) = {}
                   /\ \A l \in LeavesOf(n.left), r \in LeavesOf(n.right) : ordered(l, r)
                   /\ ShapeOk(n.left, LeavesOf(n.left), Tail(axs))
                   /\ ShapeOk(n.right, LeavesOf(n.right),
                              SubSeq(axs, 2 + CountNodes(n.left), Len(axs)))

\* C12: a node over one element has it as both children; a node over two has
\* the one with the lesser box minimum on the node's axis on the left; a
\* node over more has the first span/2 elements of the sorted range on the
\* left and the others on the right.  The leaves of the tree are the
\* elements of the range, each once, twice under a single-element node.
C12_TreeShape ==
    (q # NoCall /\ q.op = "build")
    => /\ ShapeOk(tree.root, {tree.src[i] : i \in 1..Len(tree.src)}, q.axes)
       /\ CountNodes(tree.root) = Len(q.axes)

\* C12 witness: a tree over three spheres whose root sorted them into an
\* order other than that of the list, and whose right node swapped its two.
C12_Witness ==
    /\ q # NoCall /\ q.op = "build"
    /\ Len(tree.src) = 3
    /\ \A i \in 1..3 : IsSphereId(tree.src[i])
    /\ LeavesOf(tree.root.left) # {tree.src[1]}
    /\ tree.root.right.left.id = tree.src[1]
    /\ KeyOn(tree.root.right.left.id, q.axes[3])
           < KeyOn(tree.root.right.right.id, q.axes[3])

\* the box a child of a node of the tree reports over the window of the tree
ChildBox(h) == BoundingBox(h, tree.time0, tree.time1, DefaultAabb).box

\* C13: in a tree built from spheres and moving spheres the box of each node
\* is the union of the boxes of its two children over [time0, time1] and so
\* contains the box of every object under the node; bvh_node::bounding_box
\* succeeds with the box of the node, whatever the times asked for.
C13_NodeBoxes ==
    (tree # NoTree /\ \A i \in 1..Len(tree.src) : IsSphereId(tree.src[i]))
    => /\ \A n \in NodesOf(tree.root) :
              /\ n.box = UnionOfBoxes({ChildBox(n.left), ChildBox(n.right)})
              /\ \A id \in LeavesOf(n) :
                     BoxWithin(BoxAlone(id, tree.time0, tree.time1).box, n.box)
       /\ (q # NoCall /\ q.op = "box" /\ q.on = "tree")
              => (out.ok /\ out.box = tree.root.box)

\* C13 witness: bounding_box was called, with times other than those of the
\* construction, on a tree of three objects with the moving sphere among
\* them, whose root box is the box of neither child.
C13_Witness ==
    /\ tree # NoTree
    /\ q # NoCall /\ q.op = "box" /\ q.on = "tree"
    /\ <<q.time0, q.time1>> # <<tree.time0, tree.time1>>
    /\ out.ok
    /\ Len(tree.src) = 3 /\ \A i \in 1..3 : IsSphereId(tree.src[i])
    /\ out.box # tree.root.left.box /\ out.box # tree.root.right.box
    /\ BoxAlone(3, tree.time0, tree.time1).box # BoxAlone(3, q.time0, q.time1).box

-----------------------------------------------------------------------------
(* The order of the calls in bvh_node::hit *)

\* What a hit call on the tree, with the ray and interval of call c, gives
\* when it returns record o and leaves the generator at g: no child is asked
\* when the ray misses the box of the root (nothing is drawn); otherwise the
\* left child is asked over [t_min, t_max], then the right child over
\* [t_min, t of the left hit] or [t_min, t_max], each on a record of its own,
\* and the draws are used in that order.
TraversalOk(c, o, g) ==
    LET n == tree.root
    IN  IF ~AabbHit(n.box, c.r, c.t_min, c.t_max)
        THEN ~o.hit /\ o.rec = NoRec /\ g = gen
        ELSE \E us \in DrawSeqs(MediumCalls(n)) :
                 LET hl == Hit(n.left, c.r, c.t_min, c.t_max, NoRec, us)
                     hr == Hit(n.right, c.r, c.t_min,
                               IF hl.hit THEN hl.rec.t ELSE c.t_max, NoRec, hl.us)
                 IN  /\ o.hit = (hl.hit \/ hr.hit)
                     /\ hr.hit => o.rec = hr.rec
                     /\ (hl.hit /\ ~hr.hit) => o.rec = hl.rec
                     /\ g = Advance(gen, Len(us) - Len(hr.us))

\* C14: bvh_node::hit asks no child when the ray misses the box of the node;
\* otherwise it asks the left child over [t_min, t_max], then always the
\* right child, over [t_min, t_left] when the left child was hit; it returns
\* true iff a child was hit, with the record of the right child when that
\* was hit and of the left child otherwise.
C14_TraversalOrder ==
    [][(q = NoCall /\ q' # NoCall /\ q'.op = "hit" /\ q'.on = "tree")
           => TraversalOk(q', out', gen')]_vars

\* C14 witness: both children of the root, two spheres, are hit at the same
\* t, and the record returned is that of the right child.
C14_Witness ==
    /\ IsHitCall("tree")
    /\ out.hit
    /\ tree.root.left.kind = "obj" /\ IsSphereId(tree.root.left.id)
    /\ tree.root.right.kind = "obj" /\ IsSphereId(tree.root.right.id)
    /\ tree.root.left # tree.root.right
    /\ Alone(tree.root.left.id).hit
    /\ Alone(tree.root.right.id).hit
    /\ Alone(tree.root.left.id).rec.t = Alone(tree.root.right.id).rec.t
    /\ out.rec.mat = Prim(tree.root.right.id).mat

-----------------------------------------------------------------------------
(* sphere::hit and moving_sphere::hit on their own *)

SphereIds == {1, 2, 3, 6}

\* s.hit(r, t_min, t_max, rec) on a fresh record, s a sphere or a moving sphere
SphereCall(id, r, iv) ==
    /\ q = NoCall
    /\ q' = [op |-> "sphere", id |-> id, r |-> r, t_min |-> iv[1], t_max |-> iv[2]]
    /\ out' = HitOut(Hit(Obj(id), r, iv[1], iv[2], NoRec, <<>>))
    /\ out2' = NoOut
    /\ UNCHANGED <<world, tree, gen, pc, loc, tq>>

NextSphere ==
    \/ \E id \in SphereIds, r \in Rays, iv \in Intervals : SphereCall(id, r, iv)
    \/ Return

SpecSphere == Init /\ [][NextSphere]_vars

\* The parameters, in halves, looked at for points of the ray on the sphere
HalfRange == 40

\* whether the point of ray r at parameter k / 2 is on the surface of the
\* sphere of center cen and radius rad (all lengths doubled)
OnSphere(cen, rad, r, k) ==
    LengthSquared(VSub(VAdd(VScale(2, r.orig), VScale(k, r.dir)), VScale(2, cen)))
        = 4 * rad * rad

\* the center sphere id is tested at by ray r
CenterFor(id, r) ==
    IF Prim(id).kind = "sphere" THEN Prim(id).center0
    ELSE MovingCenter(Prim(id), r.tm)

\* the roots of the quadratic of sphere id and ray r, as values of t
RootsOf(id, r) ==
    {k * (TScale \div 2) : k \in {j \in -HalfRange..HalfRange :
                                   OnSphere(CenterFor(id, r), Prim(id).radius, r, j)}}

\* the discriminant half_b^2 - a c of sphere id and ray r
DiscriminantOf(id, r) ==
    LET s == Prim(id)
        oc == VSub(r.orig, CenterFor(id, r))
    IN  Dot(oc, r.dir) * Dot(oc, r.dir)
            - LengthSquared(r.dir) * (LengthSquared(oc) - s.radius * s.radius)

InRange(t, c) == c.t_min <= t /\ t <= c.t_max

\* C15: sphere::hit and moving_sphere::hit report a hit iff the discriminant
\* is not negative and a root lies in [t_min, t_max]; t is then the smaller
\* root when that is in range, and the larger root otherwise.
C15_SphereRoots ==
    (q # NoCall /\ q.op = "sphere")
    => LET roots == RootsOf(q.id, q.r)
           lo == CHOOSE t \in roots : \A u \in roots : t <= u
           hi == CHOOSE t \in roots : \A u \in roots : t >= u
       IN  /\ (roots # {}) = (DiscriminantOf(q.id, q.r) >= 0)
           /\ out.hit = (DiscriminantOf(q.id, q.r) >= 0
                             /\ \E t \in roots : InRange(t, q))
           /\ out.hit => out.rec.t = IF InRange(lo, q) THEN lo ELSE hi

\* C15 witness: the smaller root is below t_min and the hit is at the larger one.
C15_Witness ==
    /\ q # NoCall /\ q.op = "sphere"
    /\ out.hit
    /\ \E t \in RootsOf(q.id, q.r) : t < q.t_min /\ t < out.rec.t

-----------------------------------------------------------------------------
(* moving_sphere::center and moving_sphere::bounding_box on their own.     *)
(* Sphere 7 moves from (0, 0, 0) to (0, 2, 0); with its times counted in   *)
(* halves its window is [0, 1] and the time 1 of the model is 0.5.         *)

MovingIds == {3, 7}

MovingTimes == -2..4

\* s.center(time)
CenterCall(id, time) ==
    /\ q = NoCall
    /\ q' = [op |-> "center", id |-> id, time |-> time]
    /\ out' = [op |-> "center", center |-> MovingCenter(Prim(id), time)]
    /\ out2' = NoOut
    /\ UNCHANGED <<world, tree, gen, pc, loc, tq>>

\* s.bounding_box(t0, t1, output_box) on a fresh aabb
MovingBoxCall(id, t0, t1) ==
    /\ q = NoCall
    /\ q' = [op |-> "mbox", id |-> id, time0 |-> t0, time1 |-> t1]
    /\ out' = [op |-> "mbox"] @@ BoundingBox(Obj(id), t0, t1, DefaultAabb)
    /\ out2' = NoOut
    /\ UNCHANGED <<world, tree, gen, pc, loc, tq>>

NextMoving ==
    \/ \E id \in MovingIds, time \in MovingTimes : CenterCall(id, time)
    \/ \E id \in MovingIds, t0 \in MovingTimes, t1 \in MovingTimes :
          MovingBoxCall(id, t0, t1)
    \/ Return

SpecMoving == Init /\ [][NextMoving]_vars

\* whether c is the point of the line from center0 at time0 to center1 at
\* time1 that belongs to time
Interpolates(s, time, c) ==
    VScale(s.time1 - s.time0, VSub(c, s.center0))
        = VScale(time - s.time0, VSub(s.center1, s.center0))

\* the box of radius rad around c
BoxAround(c, rad) ==
    Aabb(Vec(E(c, 0) - rad, E(c, 1) - rad, E(c, 2) - rad),
         Vec(E(c, 0) + rad, E(c, 1) + rad, E(c, 2) + rad))

\* C16: center(time) is on the line from center0 at time0 to center1 at
\* time1: center0 at time0, center1 at time1 and their midpoint at the
\* middle time, (0, 1, 0) for sphere 7 at time 0.5; bounding_box(t0, t1) is
\* the union of the boxes of radius r around center(t0) and center(t1).
C16_MovingCenterAndBox ==
    /\ (q # NoCall /\ q.op = "center") =>
           LET s == Prim(q.id)
           IN  /\ Interpolates(s, q.time, out.center)
               /\ q.time = s.time0 => out.center = s.center0
               /\ q.time = s.time1 => out.center = s.center1
               /\ 2 * q.time = s.time0 + s.time1 =>
                      VScale(2, out.center) = VAdd(s.center0, s.center1)
               /\ (q.id = 7 /\ q.time = 1) => out.center = Vec(0, 1, 0)
    /\ (q # NoCall /\ q.op = "mbox") =>
           LET s == Prim(q.id)
           IN  /\ out.ok
               /\ \E c0 \in {MovingCenter(s, q.time0)}, c1 \in {MovingCenter(s, q.time1)} :
                      /\ Interpolates(s, q.time0, c0)
                      /\ Interpolates(s, q.time1, c1)
                      /\ out.box = UnionOfBoxes({BoxAround(c0, s.radius),
                                                 BoxAround(c1, s.radius)})

\* C16 witness: the box of the sphere that starts away from the origin,
\* over a window within which it moves, is the box around neither end.
C16_Witness ==
    /\ q # NoCall /\ q.op = "mbox"
    /\ q.id = 3
    /\ q.time0 < q.time1
    /\ out.ok
    /\ out.box # BoxAround(MovingCenter(Prim(3), q.time0), 1)
    /\ out.box # BoxAround(MovingCenter(Prim(3), q.time1), 1)

-----------------------------------------------------------------------------
(* Calls on a record the caller has used before *)

\* the objects the scene list is assembled from: a sphere, the medium and
\* the empty list
RecordSceneIds == {1, 4, 5}

\* a record that holds the values of an earlier hit
UsedRec ==
    [t |-> T(7), p |-> Vec(1, 2, 3), normal |-> Vec(0, TScale, 0),
     front_face |-> TRUE, mat |-> 9]

\* world.hit(r, t_min, t_max, rec) on the record rec; q keeps rec and the
\* values random_double returns during the call
HitListInto(r, iv, rec, us) ==
    /\ q = NoCall
    /\ \E h \in {ListHit(world, r, iv[1], iv[2], rec, us)} :
           /\ out' = HitOut(h)
           /\ gen' = Advance(gen, Len(us) - Len(h.us))
    /\ q' = [op |-> "hit", on |-> "list", r |-> r, t_min |-> iv[1], t_max |-> iv[2],
             rec |-> rec, us |-> us]
    /\ out2' = NoOut
    /\ UNCHANGED <<world, tree, pc, loc, tq>>

\* tree.hit(r, t_min, t_max, rec) on the record rec
HitTreeInto(r, iv, rec, us) ==
    /\ q = NoCall
    /\ tree # NoTree
    /\ \E h \in {Hit(tree.root, r, iv[1], iv[2], rec, us)} :
           /\ out' = HitOut(h)
           /\ gen' = Advance(gen, Len(us) - Len(h.us))
    /\ q' = [op |-> "hit", on |-> "tree", r |-> r, t_min |-> iv[1], t_max |-> iv[2],
             rec |-> rec, us |-> us]
    /\ out2' = NoOut
    /\ tree' = TreeAfterHit(tree)
    /\ UNCHANGED <<world, pc, loc, tq>>

NextRecord ==
    \/ \E id \in RecordSceneIds : Add(id)
    \/ Clear
    \/ \E w \in BuildWindows, tie \in 0..1 :
          \E axes \in SeqsOf(Axes, NodeCount(Len(world))) : BuildBvh(w, axes, tie)
    \/ \E r \in Rays, iv \in Intervals :
          \E us \in DrawSeqs(ListMediumCalls(world)) : HitListInto(r, iv, UsedRec, us)
    \/ \E r \in Rays, iv \in Intervals :
          \E us \in DrawSeqs(IF tree = NoTree THEN 0 ELSE MediumCalls(tree.root)) :
              HitTreeInto(r, iv, UsedRec, us)
    \/ Return

SpecRecord == Init /\ [][NextRecord]_vars

\* what the left child of the root answers to the call of q
LeftOfRoot ==
    Hit(tree.root.left, q.r, q.t_min, q.t_max, q.rec, q.us)

\* what the right child of the root answers after the left child was hit
RightAfterLeft ==
    Hit(tree.root.right, q.r, q.t_min, LeftOfRoot.rec.t, LeftOfRoot.rec, LeftOfRoot.us)

\* the right child of the root is asked after a hit of the left child, and is missed
LeftHitRightMissed ==
    /\ IsHitCall("tree")
    /\ AabbHit(tree.root.box, q.r, q.t_min, q.t_max)
    /\ LeftOfRoot.hit
    /\ ~RightAfterLeft.hit

\* C17: a hit call that returns false leaves the record of the caller as it
\* was, on a list and on a tree of spheres, media and lists; and when the
\* right child of a node is missed after the left one was hit, the record is
\* that of the left child.
C17_MissKeepsRecord ==
    (q # NoCall /\ q.op = "hit")
    => /\ ~out.hit => out.rec = q.rec
       /\ LeftHitRightMissed =>
              (out.hit /\ out.rec = LeftOfRoot.rec /\ out.rec # q.rec)
       /\ \A i \in 1..Len(world) :
              \A us \in DrawSeqs(IF IsMediumId(world[i]) THEN 1 ELSE 0) :
                  LET h == Hit(Obj(world[i]), q.r, q.t_min, q.t_max, q.rec, us)
                  IN  ~h.hit => h.rec = q.rec

\* C17 witness: a call on a tree whose ray crosses the boundary of the medium
\* within the interval returned false on a used record, the medium having
\* drawn a free path longer than the way through it.
C17_Witness ==
    /\ IsHitCall("tree")
    /\ ~out.hit
    /\ q.rec = UsedRec
    /\ gen # 0
    /\ AabbHit(tree.root.box, q.r, q.t_min, q.t_max)

-----------------------------------------------------------------------------
(* The constructor calls of bvh_node(list, time0, time1), one at a time.   *)
(* q holds the stack of the calls in progress, each with its range         *)
(* [start, end) of the vector and the place it has reached; the ranges do  *)
(* not depend on the order the sort gives the elements.                    *)

\* the depth of calls at which the stack of the process is exhausted
MaxDepth == 6

Frame(start, end, at) == [start |-> start, end |-> end, at |-> at]

\* size_t object_span = end - start
SpanOf(f) == f.end - f.start

\* auto mid = start + object_span / 2
MidOf(f) == f.start + SpanOf(f) \div 2

Top(stack) == stack[Len(stack)]

Pop(stack) == SubSeq(stack, 1, Len(stack) - 1)

\* the top call of stack has reached the place at
TopAt(stack, at) == [stack EXCEPT ![Len(stack)].at = at]

\* bvh_node(world, time0, time1) is called: it calls
\* bvh_node(list.objects, 0, list.objects.size(), time0, time1)
CtorCall ==
    /\ q = NoCall
    /\ tree = NoTree
    /\ q' = [op |-> "ctor", stack |-> <<Frame(0, Len(world), "enter")>>]
    /\ UNCHANGED <<world, tree, gen, out, out2, pc, loc, tq>>

\* the call on top has a span of 1 or 2: it sets left and right to elements
\* of the vector, then box, and returns
CtorLeaf ==
    /\ q # NoCall /\ q.op = "ctor"
    /\ Top(q.stack).at = "enter"
    /\ SpanOf(Top(q.stack)) \in {1, 2}
    /\ q' = [q EXCEPT !.stack = TopAt(q.stack, "box")]
    /\ UNCHANGED <<world, tree, gen, out, out2, pc, loc, tq>>

\* the call on top has another span: it sorts its range and calls
\* make_shared<bvh_node>(objects, start, mid, time0, time1)
CtorLeft ==
    /\ q # NoCall /\ q.op = "ctor"
    /\ Top(q.stack).at = "enter"
    /\ SpanOf(Top(q.stack)) \notin {1, 2}
    /\ Len(q.stack) < MaxDepth
    /\ q' = [q EXCEPT !.stack =
                 Append(TopAt(q.stack, "left"),
                        Frame(Top(q.stack).start, MidOf(Top(q.stack)), "enter"))]
    /\ UNCHANGED <<world, tree, gen, out, out2, pc, loc, tq>>

\* left is built: make_shared<bvh_node>(objects, mid, end, time0, time1)
CtorRight ==
    /\ q # NoCall /\ q.op = "ctor"
    /\ Top(q.stack).at = "left_done"
    /\ Len(q.stack) < MaxDepth
    /\ q' = [q EXCEPT !.stack =
                 Append(TopAt(q.stack, "right"),
                        Frame(MidOf(Top(q.stack)), Top(q.stack).end, "enter"))]
    /\ UNCHANGED <<world, tree, gen, out, out2, pc, loc, tq>>

\* the call on top has its children and its box: it returns to its caller,
\* or to the caller of bvh_node(world, time0, time1)
CtorReturn ==
    /\ q # NoCall /\ q.op = "ctor"
    /\ Top(q.stack).at \in {"box", "right_done"}
    /\ q' = IF Len(q.stack) = 1 THEN [op |-> "built"]
            ELSE [q EXCEPT !.stack =
                      TopAt(Pop(q.stack),
                            IF Top(Pop(q.stack)).at = "left" THEN "left_done"
                            ELSE "right_done")]
    /\ UNCHANGED <<world, tree, gen, out, out2, pc, loc, tq>>

\* a call is to be made and the stack is exhausted: the process ends
CtorOverflow ==
    /\ q # NoCall /\ q.op = "ctor"
    /\ \/ Top(q.stack).at = "enter" /\ SpanOf(Top(q.stack)) \notin {1, 2}
       \/ Top(q.stack).at = "left_done"
    /\ Len(q.stack) = MaxDepth
    /\ q' = [op |-> "overflow"]
    /\ UNCHANGED <<world, tree, gen, out, out2, pc, loc, tq>>

\* the caller goes on after the construction
CtorDone ==
    /\ q # NoCall /\ q.op = "built"
    /\ q' = NoCall
    /\ UNCHANGED <<world, tree, gen, out, out2, pc, loc, tq>>

NextCtor ==
    \/ \E id \in SceneIds : Add(id)
    \/ Clear
    \/ CtorCall
    \/ CtorLeaf
    \/ CtorLeft
    \/ CtorRight
    \/ CtorReturn
    \/ CtorOverflow
    \/ CtorDone

SpecCtor == Init /\ [][NextCtor]_vars

\* a constructor call makes a constructor call
CtorCalls ==
    /\ q # NoCall /\ q.op = "ctor"
    /\ q' # NoCall /\ q'.op = "ctor"
    /\ Len(q'.stack) = Len(q.stack) + 1

\* C18 as claimed: the construction terminates on every list, the empty one
\* included: every constructor call made by a constructor call is on a
\* strictly smaller range, which is not empty when the list is not, and the
\* stack is never exhausted.
C18_ConstructionTerminates ==
    [][/\ CtorCalls =>
              /\ SpanOf(Top(q'.stack)) < SpanOf(Top(q.stack))
              /\ Len(world) >= 1 => SpanOf(Top(q'.stack)) >= 1
       /\ q'.op # "overflow"]_vars

====
